---- MODULE Spec2Model ----
(***************************************************************************)
(* A model of src/target/riscv/program.c: the builder and executor of      *)
(* RISC-V debug "program buffer" programs.                                 *)
(*                                                                         *)
(* struct riscv_program is the record p.  Every C function is a pure       *)
(* operator on a call context c = [p, fatal, ret, log]: p is the program   *)
(* struct, fatal says that abort() was reached (nothing after it runs),    *)
(* ret is the function's return value and log the LOG_ERROR lines written. *)
(* Every caller-visible function is also an action that applies the        *)
(* operator to the current program.  riscv_program_exec talks to the       *)
(* target, so it is an action with the hardware's answers as inputs.       *)
(***************************************************************************)
EXTENDS Integers, Sequences, FiniteSets, TLC

(***************************************************************************)
(* Bounds of the model.  The register file and the debug buffer are scaled *)
(* down: the source has GDB_REGNO_S0 = 8, GDB_REGNO_XPR31 = 31 and         *)
(* RISCV_MAX_DEBUG_BUFFER_SIZE = 16.                                       *)
(***************************************************************************)
\* Slots of p->debug_buffer; the target reports a size up to this.
RISCV_MAX_DEBUG_BUFFER_SIZE == 3

\* Scratch-eligible registers GDB_REGNO_S0 .. GDB_REGNO_XPR31.
NumScratch == 2

\* Register values are 0 .. MaxRegVal.
MaxRegVal == 1

GDB_REGNO_XPR0 == 0

GDB_REGNO_X0 == GDB_REGNO_XPR0

\* One register (X1) lies between X0 and the first scratch register.
GDB_REGNO_S0 == GDB_REGNO_XPR0 + 2

GDB_REGNO_XPR31 == GDB_REGNO_S0 + NumScratch - 1

\* Only the general-purpose registers are modelled: riscv_program_exec reads
\* no other entry of writes_xreg and riscv_program_gettemp no other of in_use.
RISCV_REGISTER_COUNT == GDB_REGNO_XPR31 + 1

ERROR_OK == 0

ERROR_FAIL == 0 - 4

Regs == 0 .. (RISCV_REGISTER_COUNT - 1)

XRegs == GDB_REGNO_XPR0 .. GDB_REGNO_XPR31

RegVals == 0 .. MaxRegVal

Slots == 0 .. (RISCV_MAX_DEBUG_BUFFER_SIZE - 1)

\* The words asm.h's encoders return: the mnemonic and its operands.
Insn(op, x, y, imm) == <<op, x, y, imm>>

\* (riscv_insn_t)-1, the value riscv_program_init fills the buffer with.
INVALID_INSN == Insn("invalid", 0 - 1, 0 - 1, 0 - 1)

VARIABLES
  p,            \* struct riscv_program
  buffer_size,  \* riscv_debug_buffer_size(target)
  reg,          \* the target's general-purpose registers
  pc,           \* "running", or "aborted" once abort() was called
  ret,          \* what the last call returned
  log,          \* the LOG_ERROR lines of the last call
  hw            \* the hardware calls of the last call, in order

vars == <<p, buffer_size, reg, pc, ret, log, hw>>

----------------------------------------------------------------------------
(* Call contexts *)

Ctx(prog) == [p |-> prog, fatal |-> FALSE, ret |-> ERROR_OK, log |-> <<>>]

Return(c, r) == IF c.fatal THEN c ELSE [c EXCEPT !.ret = r]

LogError(c, line) == IF c.fatal THEN c ELSE [c EXCEPT !.log = Append(@, line)]

Abort(c) == [c EXCEPT !.fatal = TRUE]

----------------------------------------------------------------------------
(* Helper functions *)

riscv_program_gah(addr) == addr \div 4096

riscv_program_gal(addr) == IF addr > 0 THEN addr % 2048 ELSE 0

\* An insert whose capacity test is off by one, "count > size".
riscv_program_insert_OffByOne(c, i) ==
  IF c.fatal THEN c
  ELSE IF c.p.instruction_count > buffer_size
       THEN Abort(c)
       ELSE Return([c EXCEPT !.p.debug_buffer[c.p.instruction_count] = i,
                             !.p.instruction_count = c.p.instruction_count + 1],
                   ERROR_OK)

riscv_program_insert(c, i) ==
  IF c.fatal THEN c
  ELSE IF c.p.instruction_count >= buffer_size
  THEN Abort(LogError(LogError(LogError(c, "Unable to insert instruction:"),
                               "  instruction_count="), "  buffer size      ="))
  ELSE Return([c EXCEPT !.p.debug_buffer[c.p.instruction_count] = i,
                        !.p.instruction_count = @ + 1], ERROR_OK)

\* "if (f(...) != ERROR_OK) return ERROR_FAIL;" applied to f's outcome.
FailIfNotOk(c) == IF c.fatal \/ c.ret = ERROR_OK THEN c ELSE Return(c, ERROR_FAIL)

SetWritesMemory(c) == IF c.fatal THEN c ELSE [c EXCEPT !.p.writes_memory = TRUE]

----------------------------------------------------------------------------
(* Register-relative stores and loads *)

riscv_program_swr(c, d, b, offset) ==
  riscv_program_insert(SetWritesMemory(c), Insn("sw", d, b, offset))

riscv_program_shr(c, d, b, offset) ==
  riscv_program_insert(SetWritesMemory(c), Insn("sh", d, b, offset))

riscv_program_sbr(c, d, b, offset) ==
  riscv_program_insert(SetWritesMemory(c), Insn("sb", d, b, offset))

riscv_program_lwr(c, d, b, offset) ==
  riscv_program_insert(SetWritesMemory(c), Insn("lw", d, b, offset))

riscv_program_lhr(c, d, b, offset) ==
  riscv_program_insert(SetWritesMemory(c), Insn("lh", d, b, offset))

riscv_program_lbr(c, d, b, offset) ==
  riscv_program_insert(SetWritesMemory(c), Insn("lb", d, b, offset))

----------------------------------------------------------------------------
(* Immediates *)

riscv_program_lui(c, d, u) == riscv_program_insert(c, Insn("lui", d, 0, u))

riscv_program_addi(c, d, s, u) == riscv_program_insert(c, Insn("addi", d, s, u))

riscv_program_li(c, d, k) ==
  LET c1 == FailIfNotOk(riscv_program_lui(c, d, k \div 4096))
  IN  IF c1.fatal \/ c1.ret # ERROR_OK THEN c1
      ELSE FailIfNotOk(riscv_program_addi(c1, d, d, k % 4096))

\* A lah that emits its lui even when the upper part is zero.
riscv_program_lah_AlwaysLui(c, d, addr) ==
  riscv_program_lui(c, d, riscv_program_gah(addr))

riscv_program_lah(c, d, addr) ==
  LET ah == riscv_program_gah(addr)
  IN  IF ah = 0 THEN Return(c, ERROR_OK) ELSE riscv_program_lui(c, d, ah)

riscv_program_lal(c, d, addr) ==
  LET al == riscv_program_gal(addr)
  IN  IF al = 0 THEN Return(c, ERROR_OK) ELSE riscv_program_addi(c, d, d, al)

----------------------------------------------------------------------------
(* Register bookkeeping *)

\* A dont_restore_register that gives the register back as well.
riscv_program_dont_restore_register_Releases(c, r) ==
  IF c.fatal THEN c
  ELSE IF ~(r < RISCV_REGISTER_COUNT) THEN Abort(c)
  ELSE Return([c EXCEPT !.p.writes_xreg[r] = FALSE, !.p.in_use[r] = FALSE], ERROR_OK)

riscv_program_dont_restore_register(c, r) ==
  IF c.fatal THEN c
  ELSE IF ~(r < RISCV_REGISTER_COUNT) THEN Abort(c)
  ELSE Return([c EXCEPT !.p.writes_xreg[r] = FALSE], ERROR_OK)

riscv_program_do_restore_register(c, r) ==
  IF c.fatal THEN c
  ELSE IF ~(r < RISCV_REGISTER_COUNT) THEN Abort(c)
  ELSE Return([c EXCEPT !.p.writes_xreg[r] = TRUE], ERROR_OK)

\* The registers the loop of riscv_program_gettemp passes over before i.
InUseBelow(prog, i) == \A j \in GDB_REGNO_S0 .. (i - 1) : prog.in_use[j]

\* A gettemp that scans from GDB_REGNO_XPR31 downwards.
riscv_program_gettemp_FromTheTop(c) ==
  IF c.fatal THEN c
  ELSE IF \E i \in GDB_REGNO_S0 .. GDB_REGNO_XPR31 : ~c.p.in_use[i]
  THEN LET i  == CHOOSE i \in GDB_REGNO_S0 .. GDB_REGNO_XPR31 :
                   ~c.p.in_use[i] /\ \A j \in (i + 1) .. GDB_REGNO_XPR31 : c.p.in_use[j]
           c1 == riscv_program_do_restore_register(c, i)
       IN  Return([c1 EXCEPT !.p.in_use[i] = TRUE], i)
  ELSE Abort(LogError(c, "You've run out of temporary registers.  This is impossible."))

\* A gettemp that leaves out riscv_program_do_restore_register.
riscv_program_gettemp_NoRestore(c) ==
  IF c.fatal THEN c
  ELSE IF \E i \in GDB_REGNO_S0 .. GDB_REGNO_XPR31 : ~c.p.in_use[i]
  THEN LET i  == CHOOSE i \in GDB_REGNO_S0 .. GDB_REGNO_XPR31 :
                   ~c.p.in_use[i] /\ InUseBelow(c.p, i)
       IN  Return([c EXCEPT !.p.in_use[i] = TRUE], i)
  ELSE Abort(LogError(c, "You've run out of temporary registers.  This is impossible."))

\* The return value is the register; with every register in use it aborts.
riscv_program_gettemp(c) ==
  IF c.fatal THEN c
  ELSE IF \E i \in GDB_REGNO_S0 .. GDB_REGNO_XPR31 : ~c.p.in_use[i]
  THEN LET i  == CHOOSE i \in GDB_REGNO_S0 .. GDB_REGNO_XPR31 :
                   ~c.p.in_use[i] /\ InUseBelow(c.p, i)
           c1 == riscv_program_do_restore_register(c, i)
       IN  Return([c1 EXCEPT !.p.in_use[i] = TRUE], i)
  ELSE Abort(LogError(c, "You've run out of temporary registers.  This is impossible."))

\* A puttemp that also forgets that the register was written.
riscv_program_puttemp_ClearsBoth(c, r) ==
  IF c.fatal THEN c
  ELSE IF ~(r < RISCV_REGISTER_COUNT) THEN Abort(c)
  ELSE [c EXCEPT !.p.in_use[r] = FALSE, !.p.writes_xreg[r] = FALSE]

riscv_program_puttemp(c, r) ==
  IF c.fatal THEN c
  ELSE IF ~(r < RISCV_REGISTER_COUNT) THEN Abort(c)
  ELSE [c EXCEPT !.p.in_use[r] = FALSE]

----------------------------------------------------------------------------
(* Address-relative loads: the upper part of the address goes to d itself *)

\* A load that takes a scratch register for the upper part, as the stores do.
LoadAbs_ViaScratch(c, op, d, addr) ==
  LET c0 == IF riscv_program_gah(addr) = 0
            THEN Return(c, GDB_REGNO_X0)
            ELSE riscv_program_gettemp(c)
      t  == c0.ret
      c1 == FailIfNotOk(riscv_program_lah(c0, t, addr))
  IN  IF c1.fatal \/ c1.ret # ERROR_OK THEN c1
      ELSE LET c2 == FailIfNotOk(riscv_program_insert(
                                   c1, Insn(op, d, t, riscv_program_gal(addr))))
           IN  IF c2.fatal \/ c2.ret # ERROR_OK THEN c2
               ELSE Return(riscv_program_puttemp(c2, t), ERROR_OK)

LoadAbs(c, op, d, addr) ==
  LET t  == IF riscv_program_gah(addr) = 0 THEN GDB_REGNO_X0 ELSE d
      c1 == FailIfNotOk(riscv_program_lah(c, d, addr))
  IN  IF c1.fatal \/ c1.ret # ERROR_OK THEN c1
      ELSE FailIfNotOk(riscv_program_insert(c1, Insn(op, d, t, riscv_program_gal(addr))))

riscv_program_ld(c, d, addr) == LoadAbs(c, "ld", d, addr)

riscv_program_lw(c, d, addr) == LoadAbs(c, "lw", d, addr)

riscv_program_lh(c, d, addr) == LoadAbs(c, "lh", d, addr)

\* lb hands t, not d, to riscv_program_lah.
riscv_program_lb(c, d, addr) ==
  LET t  == IF riscv_program_gah(addr) = 0 THEN GDB_REGNO_X0 ELSE d
      c1 == FailIfNotOk(riscv_program_lah(c, t, addr))
  IN  IF c1.fatal \/ c1.ret # ERROR_OK THEN c1
      ELSE FailIfNotOk(riscv_program_insert(c1, Insn("lb", d, t, riscv_program_gal(addr))))

riscv_program_lx(c, d, addr) ==
  IF c.fatal THEN c
  ELSE CASE c.p.target_xlen = 64 -> riscv_program_ld(c, d, addr)
         [] c.p.target_xlen = 32 -> riscv_program_lw(c, d, addr)
         [] OTHER -> Abort(LogError(c, "unknown xlen"))

----------------------------------------------------------------------------
(* Address-relative stores: the upper part goes to a scratch register *)

StoreAbs(c, op, d, addr) ==
  LET c0 == IF riscv_program_gah(addr) = 0
            THEN Return(c, GDB_REGNO_X0)
            ELSE riscv_program_gettemp(c)
      t  == c0.ret
      c1 == FailIfNotOk(riscv_program_lah(c0, t, addr))
  IN  IF c1.fatal \/ c1.ret # ERROR_OK THEN c1
      ELSE LET c2 == FailIfNotOk(riscv_program_insert(
                                   c1, Insn(op, d, t, riscv_program_gal(addr))))
           IN  IF c2.fatal \/ c2.ret # ERROR_OK THEN c2
               ELSE Return(SetWritesMemory(riscv_program_puttemp(c2, t)), ERROR_OK)

riscv_program_sd(c, d, addr) == StoreAbs(c, "sd", d, addr)

riscv_program_sw(c, d, addr) == StoreAbs(c, "sw", d, addr)

riscv_program_sh(c, d, addr) == StoreAbs(c, "sh", d, addr)

riscv_program_sb(c, d, addr) == StoreAbs(c, "sb", d, addr)

riscv_program_sx(c, d, addr) ==
  IF c.fatal THEN c
  ELSE CASE c.p.target_xlen = 64 -> riscv_program_sd(c, d, addr)
         [] c.p.target_xlen = 32 -> riscv_program_sw(c, d, addr)
         [] OTHER -> Abort(LogError(c, "unknown xlen"))

----------------------------------------------------------------------------
(* CSR accesses, fences, ebreak.  csr is the CSR number, csr - GDB_REGNO_CSR0. *)

riscv_program_csrr(c, d, csr) ==
  riscv_program_insert(c, Insn("csrrs", d, GDB_REGNO_X0, csr))

riscv_program_csrw(c, s, csr) ==
  riscv_program_insert(c, Insn("csrrw", GDB_REGNO_X0, s, csr))

riscv_program_csrrw(c, d, s, csr) ==
  riscv_program_insert(c, Insn("csrrw", d, s, csr))

riscv_program_fence_i(c) == riscv_program_insert(c, Insn("fence.i", 0, 0, 0))

riscv_program_fence(c) == riscv_program_insert(c, Insn("fence", 0, 0, 0))

riscv_program_ebreak(c) ==
  IF c.fatal THEN c
  ELSE IF c.p.instruction_count = buffer_size THEN Return(c, ERROR_OK)
  ELSE riscv_program_insert(c, Insn("ebreak", 0, 0, 0))

----------------------------------------------------------------------------
(* The target *)

\* riscv_set_register on the target: X0 is hard-wired to zero.
TargetSetRegister(regs, i, v) ==
  IF i = GDB_REGNO_X0 THEN regs ELSE [regs EXCEPT ![i] = v]

\* The general-purpose registers the instructions of a program write.
WritesRd(insn) ==
  insn[1] \in {"lw", "lh", "lb", "ld", "lui", "addi", "csrrs", "csrrw"}

Dests(prog) ==
  {prog.debug_buffer[i][2] :
     i \in {j \in 0 .. (prog.instruction_count - 1) : WritesRd(prog.debug_buffer[j])}}
  \ {GDB_REGNO_X0}

\* What running a program can leave in the registers: any value in each
\* register an instruction writes, the others as they were.
RunOutcomes(prog, regs) ==
  {[r \in XRegs |-> IF r \in Dests(prog) THEN g[r] ELSE regs[r]] :
     g \in [Dests(prog) -> RegVals]}

----------------------------------------------------------------------------
(* riscv_program_init *)

riscv_program_init(xlen) ==
  [instruction_count |-> 0,
   writes_memory     |-> FALSE,
   target_xlen       |-> xlen,
   writes_xreg       |-> [r \in Regs |-> FALSE],
   in_use            |-> [r \in Regs |-> FALSE],
   debug_buffer      |-> [i \in Slots |-> INVALID_INSN]]

\* The state after riscv_program_init, for a target whose riscv_xlen is in
\* xlens and whose riscv_debug_buffer_size is in sizes.
InitFor(xlens, sizes, regfiles) ==
  /\ \E xlen \in xlens : p = riscv_program_init(xlen)
  /\ buffer_size \in sizes
  /\ reg \in regfiles
  /\ pc = "running"
  /\ ret = ERROR_OK
  /\ log = <<>>
  /\ hw = <<>>

\* Register files whose registers other than X0 all hold the same value.
UniformRegs == {[r \in XRegs |-> IF r = GDB_REGNO_X0 THEN 0 ELSE v] : v \in RegVals}

\* A 64-bit target whose debug buffer has as many words as p->debug_buffer.
Init == InitFor({64}, {RISCV_MAX_DEBUG_BUFFER_SIZE}, UniformRegs)

----------------------------------------------------------------------------
(* Calls of the builder functions: none of them touches the target *)

Call(c) ==
  /\ pc = "running"
  /\ p' = c.p
  /\ pc' = IF c.fatal THEN "aborted" ELSE "running"
  /\ ret' = c.ret
  /\ log' = c.log
  /\ hw' = <<>>
  /\ UNCHANGED <<buffer_size, reg>>

Swr(d, b, offset) == Call(riscv_program_swr(Ctx(p), d, b, offset))

Shr(d, b, offset) == Call(riscv_program_shr(Ctx(p), d, b, offset))

Sbr(d, b, offset) == Call(riscv_program_sbr(Ctx(p), d, b, offset))

Lwr(d, b, offset) == Call(riscv_program_lwr(Ctx(p), d, b, offset))

Lhr(d, b, offset) == Call(riscv_program_lhr(Ctx(p), d, b, offset))

Lbr(d, b, offset) == Call(riscv_program_lbr(Ctx(p), d, b, offset))

Lx(d, addr) == Call(riscv_program_lx(Ctx(p), d, addr))

Ld(d, addr) == Call(riscv_program_ld(Ctx(p), d, addr))

Lw(d, addr) == Call(riscv_program_lw(Ctx(p), d, addr))

Lh(d, addr) == Call(riscv_program_lh(Ctx(p), d, addr))

Lb(d, addr) == Call(riscv_program_lb(Ctx(p), d, addr))

Sx(d, addr) == Call(riscv_program_sx(Ctx(p), d, addr))

Sd(d, addr) == Call(riscv_program_sd(Ctx(p), d, addr))

Sw(d, addr) == Call(riscv_program_sw(Ctx(p), d, addr))

Sh(d, addr) == Call(riscv_program_sh(Ctx(p), d, addr))

Sb(d, addr) == Call(riscv_program_sb(Ctx(p), d, addr))

Csrr(d, csr) == Call(riscv_program_csrr(Ctx(p), d, csr))

Csrw(s, csr) == Call(riscv_program_csrw(Ctx(p), s, csr))

Csrrw(d, s, csr) == Call(riscv_program_csrrw(Ctx(p), d, s, csr))

FenceI == Call(riscv_program_fence_i(Ctx(p)))

Fence == Call(riscv_program_fence(Ctx(p)))

Ebreak == Call(riscv_program_ebreak(Ctx(p)))

Lui(d, u) == Call(riscv_program_lui(Ctx(p), d, u))

Addi(d, s, u) == Call(riscv_program_addi(Ctx(p), d, s, u))

Li(d, k) == Call(riscv_program_li(Ctx(p), d, k))

DontRestoreRegister(r) ==
  Call(riscv_program_dont_restore_register(Ctx(p), r))

DoRestoreRegister(r) ==
  Call(riscv_program_do_restore_register(Ctx(p), r))

Gettemp == Call(riscv_program_gettemp(Ctx(p)))

Puttemp(r) == Call(riscv_program_puttemp(Ctx(p), r))

----------------------------------------------------------------------------
(* riscv_program_exec *)

\* The elements of a set of register numbers, ascending: the order of a
\* "for (i = lo; i <= hi; ++i) if (...)" loop.
RECURSIVE Ascending(_)
Ascending(S) ==
  IF S = {} THEN <<>>
  ELSE LET m == CHOOSE x \in S : \A y \in S : x <= y
       IN  <<m>> \o Ascending(S \ {m})

\* The registers the save loop reads: it starts after GDB_REGNO_XPR0.
SavedRegs(prog) ==
  {i \in (GDB_REGNO_XPR0 + 1) .. GDB_REGNO_XPR31 : prog.writes_xreg[i]}

\* A restore loop that stops one register early, "i < GDB_REGNO_XPR31".
RestoredRegs_StopsEarly(prog) ==
  {i \in GDB_REGNO_XPR0 .. (GDB_REGNO_XPR31 - 1) : prog.writes_xreg[i]}

\* The registers the restore loop writes: it starts at GDB_REGNO_XPR0.
RestoredRegs(prog) ==
  {i \in GDB_REGNO_XPR0 .. GDB_REGNO_XPR31 : prog.writes_xreg[i]}

\* The LOG_ERROR loop over the whole buffer.
RECURSIVE DumpFrom(_, _)
DumpFrom(c, i) ==
  IF i >= buffer_size THEN c ELSE DumpFrom(LogError(c, "ram[]: DASM()"), i + 1)

\* An exec that appends its fence whether or not the program stores.
ExecAppend_AlwaysFence(c) ==
  LET c1 == riscv_program_fence(c)
      c3 == riscv_program_ebreak(c1)
  IN  IF ~c3.fatal /\ c3.ret # ERROR_OK
      THEN Abort(DumpFrom(LogError(c3, "Unable to write ebreak"), 0))
      ELSE c3

\* The fence and the ebreak riscv_program_exec appends.
ExecAppend(c) ==
  LET c1 == IF c.p.writes_memory THEN riscv_program_fence(c) ELSE c
      c2 == IF ~c1.fatal /\ c.p.writes_memory /\ c1.ret # ERROR_OK
            THEN Abort(DumpFrom(LogError(c1, "Unable to write fence"), 0))
            ELSE c1
      c3 == riscv_program_ebreak(c2)
  IN  IF ~c3.fatal /\ c3.ret # ERROR_OK
      THEN Abort(DumpFrom(LogError(c3, "Unable to write ebreak"), 0))
      ELSE c3

\* A read-back loop that assigns every slot of the buffer.
ReadBackSlots_All == 0 .. (buffer_size - 1)

\* The slots the read-back loop assigns: i < size and i >= size.
ReadBackSlots == {i \in 0 .. (buffer_size - 1) : i >= buffer_size}

RECURSIVE Restore(_, _, _)
Restore(regs, order, saved) ==
  IF order = <<>> THEN regs
  ELSE Restore(TargetSetRegister(regs, Head(order), saved[Head(order)]),
               Tail(order), saved)

\* Hardware calls, as <<call, index, value or status>>.
HwGets(prog, regs) ==
  LET order == Ascending(SavedRegs(prog))
  IN  [k \in 1 .. Len(order) |-> <<"get_register", order[k], regs[order[k]]>>]

\* A riscv_program_write that goes on to the next word after a failed write.
HwWrites_GoesOn(upto, failed) ==
  [k \in 1 .. (IF failed < upto THEN upto + 1 ELSE upto) |->
     <<"write_debug_buffer", k - 1, IF k - 1 = failed THEN ERROR_FAIL ELSE ERROR_OK>>]

HwWrites(upto, failed) ==
  [k \in 1 .. upto |->
     <<"write_debug_buffer", k - 1, IF k - 1 = failed THEN ERROR_FAIL ELSE ERROR_OK>>]

HwReads == LET order == Ascending(ReadBackSlots)
           IN  [k \in 1 .. Len(order) |-> <<"read_debug_buffer", order[k], 0>>]

\* A restore loop that counts down from GDB_REGNO_XPR31.
HwSets_Descending(prog, saved) ==
  LET order == Ascending(RestoredRegs(prog))
      n     == Len(order)
  IN  [k \in 1 .. n |-> <<"set_register", order[n + 1 - k], saved[order[n + 1 - k]]>>]

HwSets(prog, saved) ==
  LET order == Ascending(RestoredRegs(prog))
  IN  [k \in 1 .. Len(order) |-> <<"set_register", order[k], saved[order[k]]>>]

\* wfail: the first buffer word whose write fails (none when it is the
\* instruction count); efail: riscv_execute_debug_buffer fails; after: the
\* registers as the program leaves them; garbage: what the uninitialised
\* entries of saved_registers hold; readback: what riscv_read_debug_buffer
\* returns for each slot.
Exec(wfail, efail, after, garbage, readback) ==
  /\ pc = "running"
  /\ LET saved == [i \in XRegs |-> IF i \in SavedRegs(p) THEN reg[i] ELSE garbage]
         hw0   == <<<<"keep_alive", 0, 0>>>> \o HwGets(p, reg)
         c     == ExecAppend(Ctx(p))
         n     == c.p.instruction_count
     IN  IF c.fatal
         THEN /\ p' = c.p
              /\ pc' = "aborted"
              /\ hw' = hw0
              /\ ret' = c.ret
              /\ log' = c.log
              /\ UNCHANGED <<buffer_size, reg>>
         ELSE /\ wfail \in 0 .. n
              /\ pc' = "running"
              /\ UNCHANGED buffer_size
              /\ IF wfail < n
                 THEN \* riscv_program_write returns ERROR_FAIL at word wfail
                      /\ p' = c.p
                      /\ hw' = hw0 \o HwWrites(wfail + 1, wfail)
                      /\ ret' = ERROR_FAIL
                      /\ log' = <<>>
                      /\ UNCHANGED reg
                 ELSE /\ \A r \in XRegs \ Dests(c.p) : after[r] = reg[r]
                      /\ IF efail
                         THEN /\ p' = c.p
                              /\ reg' = after
                              /\ hw' = hw0 \o HwWrites(n, n)
                                           \o <<<<"execute_debug_buffer", 0, ERROR_FAIL>>>>
                              /\ ret' = ERROR_FAIL
                              /\ log' = <<"Unable to execute program">>
                         ELSE /\ p' = [c.p EXCEPT !.debug_buffer =
                                         [i \in Slots |->
                                            IF i \in ReadBackSlots THEN readback[i] ELSE @[i]]]
                              /\ reg' = Restore(after, Ascending(RestoredRegs(p)), saved)
                              /\ hw' = hw0 \o HwWrites(n, n)
                                           \o <<<<"execute_debug_buffer", 0, ERROR_OK>>>>
                                           \o HwReads \o HwSets(p, saved)
                              /\ ret' = ERROR_OK
                              /\ log' = <<>>

----------------------------------------------------------------------------
(* The inputs the calls are drawn from *)

X1 == GDB_REGNO_XPR0 + 1

\* 0x500: upper part zero; 0x800: upper part zero, bit 11 set;
\* 0x2000: upper part 2, lower part zero; 0x2804: neither part zero.
Addrs == {1280, 2048, 8192, 10244}

\* The address of the calls whose width is fixed.
FewAddrs == {10244}

ScratchRegs == GDB_REGNO_S0 .. GDB_REGNO_XPR31

\* <<d, addr>> of the address-relative calls whose width is fixed.
WidthArgs == {X1} \X FewAddrs

\* The inputs of a call of riscv_program_exec that its outcome depends on.
ExecStep ==
  LET n == ExecAppend(Ctx(p)).p.instruction_count
  IN  \E wfail \in 0 .. n :
        \E efail \in (IF wfail < n THEN {FALSE} ELSE BOOLEAN) :
          \E after \in (IF wfail < n THEN {reg} ELSE RunOutcomes(p, reg)) :
            \E garbage \in (IF wfail = n /\ ~efail /\ p.writes_xreg[GDB_REGNO_XPR0]
                            THEN RegVals ELSE {0}) :
              Exec(wfail, efail, after, garbage, [i \in Slots |-> Insn("ebreak", 0, 0, 0)])

(***************************************************************************)
(* Spec: the life of one program, from riscv_program_init through the      *)
(* register bookkeeping and word stores to riscv_program_exec, and on:     *)
(* nothing in the code ends a program's life after it was executed.        *)
(***************************************************************************)
Next ==
  \/ \E r \in XRegs : DontRestoreRegister(r)
  \/ \E r \in XRegs : DoRestoreRegister(r)
  \/ Gettemp
  \/ \E r \in ScratchRegs : Puttemp(r)
  \/ \E x \in WidthArgs : Sw(x[1], x[2])
  \/ ExecStep

Spec == Init /\ [][Next]_vars

(***************************************************************************)
(* SpecEmit: a program built from every emission function, with scratch    *)
(* registers taken in between, for targets of both widths whose debug      *)
(* buffer is smaller than p->debug_buffer.  No call of this specification  *)
(* reads the target's registers, which start at zero.                      *)
(***************************************************************************)
InitEmit ==
  InitFor({32, 64}, 1 .. (RISCV_MAX_DEBUG_BUFFER_SIZE - 1), {[r \in XRegs |-> 0]})

\* <<d, b, offset>> of the register-relative calls.
RegRelArgs == {<<X1, GDB_REGNO_S0, 0>>}

\* <<d, addr>> of riscv_program_lx and riscv_program_sx.
NativeArgs == ({X1} \X Addrs) \cup {<<GDB_REGNO_S0, 10244>>}

\* <<d, s, csr>> of the CSR calls: 0x7b0, dcsr.
CsrArgs == {<<GDB_REGNO_S0, X1, 1968>>}

\* <<d, immediate>> of riscv_program_lui, <<d, s, immediate>> of
\* riscv_program_addi and <<d, constant>> of riscv_program_li: 0x12345 and
\* its two parts.
LuiArgs == {<<GDB_REGNO_S0, 18>>}

AddiArgs == {<<GDB_REGNO_S0, GDB_REGNO_S0, 837>>}

LiArgs == {<<GDB_REGNO_S0, 74565>>}

EmitRegStore ==
  \/ \E x \in RegRelArgs : Swr(x[1], x[2], x[3])
  \/ \E x \in RegRelArgs : Shr(x[1], x[2], x[3])
  \/ \E x \in RegRelArgs : Sbr(x[1], x[2], x[3])

EmitRegLoad ==
  \/ \E x \in RegRelArgs : Lwr(x[1], x[2], x[3])
  \/ \E x \in RegRelArgs : Lhr(x[1], x[2], x[3])
  \/ \E x \in RegRelArgs : Lbr(x[1], x[2], x[3])

EmitAbsLoad ==
  \/ \E x \in NativeArgs : Lx(x[1], x[2])
  \/ \E x \in WidthArgs : Ld(x[1], x[2])
  \/ \E x \in WidthArgs : Lw(x[1], x[2])
  \/ \E x \in WidthArgs : Lh(x[1], x[2])
  \/ \E x \in WidthArgs : Lb(x[1], x[2])

EmitAbsStore ==
  \/ \E x \in NativeArgs : Sx(x[1], x[2])
  \/ \E x \in WidthArgs : Sd(x[1], x[2])
  \/ \E x \in WidthArgs : Sw(x[1], x[2])
  \/ \E x \in WidthArgs : Sh(x[1], x[2])
  \/ \E x \in WidthArgs : Sb(x[1], x[2])

EmitCsr ==
  \/ \E x \in CsrArgs : Csrr(x[1], x[3])
  \/ \E x \in CsrArgs : Csrw(x[2], x[3])
  \/ \E x \in CsrArgs : Csrrw(x[1], x[2], x[3])

EmitFence ==
  \/ FenceI
  \/ Fence

EmitImm ==
  \/ \E x \in LuiArgs : Lui(x[1], x[2])
  \/ \E x \in AddiArgs : Addi(x[1], x[2], x[3])

EmitLi == \E x \in LiArgs : Li(x[1], x[2])

NextEmit ==
  \/ EmitRegStore
  \/ EmitRegLoad
  \/ EmitAbsLoad
  \/ EmitAbsStore
  \/ EmitCsr
  \/ EmitFence
  \/ Ebreak
  \/ EmitImm
  \/ EmitLi
  \/ Gettemp

SpecEmit == InitEmit /\ [][NextEmit]_vars

----------------------------------------------------------------------------
(* What the claims speak of *)

\* A step is a call of riscv_program_exec exactly when it leaves hardware
\* calls behind: the call starts with keep_alive().
ExecCalled == Len(hw') > 0

\* The registers riscv_set_register was called for.
WrittenBack(h) == {h[k][2] : k \in {j \in 1 .. Len(h) : h[j][1] = "set_register"}}

\* The registers riscv_get_register was called for.
Snapshotted(h) == {h[k][2] : k \in {j \in 1 .. Len(h) : h[j][1] = "get_register"}}


----------------------------------------------------------------------------
(* C1 *)

----------------------------------------------------------------------------
(* The instruction buffer and what each call adds to it *)

Full == p.instruction_count = buffer_size

\* The calls that end in riscv_program_insert unconditionally.
EmitPlain ==
  \/ EmitRegStore
  \/ EmitRegLoad
  \/ EmitAbsLoad
  \/ EmitAbsStore
  \/ EmitCsr
  \/ EmitFence
  \/ EmitImm
  \/ EmitLi

Stored == p'.debug_buffer # p.debug_buffer \/ p'.instruction_count # p.instruction_count

\* C2, as stated: the count stays within 0 .. capacity, and every emission
\* attempted when the count equals the capacity, the ebreak emission
\* included, is fatal and stores nothing.
C2_EveryEmissionAtCapacityIsFatal ==
  /\ [](p.instruction_count >= 0 /\ p.instruction_count <= buffer_size)
  /\ [][(Full /\ (EmitPlain \/ Ebreak)) => (pc' = "aborted" /\ ~Stored)]_vars

\* C2, amended: the count stays within 0 .. capacity; every emission other
\* than ebreak attempted when the count equals the capacity aborts the
\* process and stores nothing; ebreak at capacity stores nothing either, but
\* returns ERROR_OK and the process runs on.
C2_EmissionAtCapacityIsFatalButEbreak ==
  /\ [](p.instruction_count >= 0 /\ p.instruction_count <= buffer_size)
  /\ [][(Full /\ EmitPlain) => (pc' = "aborted" /\ ~Stored)]_vars
  /\ [][(Full /\ Ebreak) => (pc' = "running" /\ ret' = ERROR_OK /\ ~Stored)]_vars

\* Exactly capacity instructions were emitted, more than one, and the next
\* emission ran into riscv_program_insert's abort.
C2_Witness ==
  /\ Full /\ buffer_size > 1
  /\ \A i \in 0 .. (buffer_size - 1) : p.debug_buffer[i] # INVALID_INSN
  /\ pc = "aborted" /\ Len(log) > 0

\* What upper(addr) of the specification is: addr shifted right by 12.
Upper(a) == a \div 4096

\* The address-relative calls of NextEmit with destination or source d and
\* address a.
AbsLoadOf(d, a) ==
  \/ <<d, a>> \in NativeArgs /\ Lx(d, a)
  \/ <<d, a>> \in WidthArgs /\ (Ld(d, a) \/ Lw(d, a) \/ Lh(d, a) \/ Lb(d, a))

AbsStoreOf(d, a) ==
  \/ <<d, a>> \in NativeArgs /\ Sx(d, a)
  \/ <<d, a>> \in WidthArgs /\ (Sd(d, a) \/ Sw(d, a) \/ Sh(d, a) \/ Sb(d, a))

AbsArgs == NativeArgs \cup WidthArgs

Added == p'.instruction_count - p.instruction_count

\* C3: the count starts at 0 and moves only by one call's contribution: a
\* call that returns adds 1 when it is a register-relative, CSR, fence,
\* fence.i, load-upper or add-immediate call, 2 when it is load-constant,
\* and 1 or 2 when it is address-relative, according to upper(addr) being
\* zero or not; taking a scratch register adds nothing.
C3_CountGrowsByContribution ==
  /\ p.instruction_count = 0
  /\ [][pc' = "running" =>
         /\ (EmitRegStore \/ EmitRegLoad \/ EmitCsr \/ EmitFence \/ EmitImm) => Added = 1
         /\ EmitLi => Added = 2
         /\ \A x \in AbsArgs :
              (AbsLoadOf(x[1], x[2]) \/ AbsStoreOf(x[1], x[2])) =>
                Added = (IF Upper(x[2]) = 0 THEN 1 ELSE 2)
         /\ Gettemp => Added = 0]_vars

\* An address-relative store whose upper part is not zero has added two
\* instructions to an empty buffer and returned.
C3_Witness ==
  /\ pc = "running" /\ ret = ERROR_OK /\ p.instruction_count = 2
  /\ p.debug_buffer[0] = Insn("lui", GDB_REGNO_S0, 0, Upper(10244))
  /\ p.debug_buffer[1][1] = "sw" /\ p.debug_buffer[1][3] = GDB_REGNO_S0
  /\ p.writes_memory

----------------------------------------------------------------------------
(* Scratch registers *)

\* The first register of the scan of riscv_program_gettemp that is free.
LowestFree ==
  CHOOSE t \in ScratchRegs : ~p.in_use[t] /\ \A j \in ScratchRegs : j < t => p.in_use[j]

\* C4: allocate_scratch returns the lowest register of S0 .. X31 that is not
\* in use, never X0 and never a register in use, and marks it in use; and
\* only release_scratch takes a register out of use, so that two allocations
\* with no release between them return different registers.
C4_LowestFreeScratch ==
  /\ [][(Gettemp /\ pc' = "running") =>
          /\ ret' \in GDB_REGNO_S0 .. GDB_REGNO_XPR31
          /\ ret' # GDB_REGNO_X0
          /\ ~p.in_use[ret']
          /\ \A j \in GDB_REGNO_S0 .. (ret' - 1) : p.in_use[j]
          /\ p'.in_use[ret']]_vars
  /\ [][(\E r \in Regs : p.in_use[r] /\ ~p'.in_use[r]) =>
          \E r \in ScratchRegs : Puttemp(r)]_vars

\* S0 was returned by the latest allocation while the next register is in
\* use: S0 was released and allocated again.
C4_Witness ==
  /\ pc = "running" /\ ret = GDB_REGNO_S0
  /\ p.in_use[GDB_REGNO_S0] /\ p.in_use[GDB_REGNO_S0 + 1]

InUseDirty(prog) == \A r \in Regs : prog.in_use[r] => prog.writes_xreg[r]

\* C8, as stated: in every reachable state every register in use is also
\* dirtied.
C8_InUseImpliesDirtied == InUseDirty(p)

\* C8, amended: every register in use is dirtied at the start, allocation
\* sets both flags of the register it returns, and every call other than
\* unmark_dirty of a register in use keeps "in use implies dirtied".
C8_InUseImpliesDirtiedUnlessUnmarked ==
  /\ InUseDirty(p)
  /\ [][(Gettemp /\ pc' = "running") => (p'.in_use[ret'] /\ p'.writes_xreg[ret'])]_vars
  /\ [][(InUseDirty(p) /\ ~(\E r \in XRegs : p.in_use[r] /\ DontRestoreRegister(r)))
          => InUseDirty(p')]_vars

\* Every scratch register is in use and dirtied while the program holds
\* instructions and X1, never in use, is not dirtied.
C8_Witness ==
  /\ pc = "running" /\ p.instruction_count > 0
  /\ \A r \in ScratchRegs : p.in_use[r] /\ p.writes_xreg[r]
  /\ ~p.writes_xreg[X1] /\ ret = ERROR_OK

----------------------------------------------------------------------------
(* What the emitted instructions are *)

\* C5: every store call that returns leaves writes_memory set, and no load
\* call changes writes_memory.
C5_StoresSetLoadsKeepWritesMemory ==
  [][pc' = "running" =>
       /\ (EmitRegStore \/ EmitAbsStore) => p'.writes_memory
       /\ (EmitRegLoad \/ EmitAbsLoad) => p'.writes_memory = p.writes_memory]_vars

\* The buffer differs from the old one in the n slots from the old count on.
Appended(n) ==
  /\ Added = n
  /\ \A i \in Slots :
       (i < p.instruction_count \/ i >= p.instruction_count + n) =>
         p'.debug_buffer[i] = p.debug_buffer[i]

\* What a returning call A, an address-relative access of mnemonic mn, is to
\* emit: one instruction with base X0, or lui into t and the access with
\* base t and displacement lower(a).  A load's t is d, and the call changes
\* no flag of a register; a store's t is the register riscv_program_gettemp
\* finds free.
EmitsAccess(A, mn, d, a, store) ==
  (pc' = "running" /\ A) =>
    LET n == p.instruction_count
        t == IF store THEN LowestFree ELSE d
    IN  /\ IF Upper(a) = 0
           THEN /\ Appended(1)
                /\ p'.debug_buffer[n][1] = mn
                /\ p'.debug_buffer[n][2] = d
                /\ p'.debug_buffer[n][3] = GDB_REGNO_X0
           ELSE /\ Appended(2)
                /\ p'.debug_buffer[n] = Insn("lui", t, 0, Upper(a))
                /\ p'.debug_buffer[n + 1] = Insn(mn, d, t, riscv_program_gal(a))
                /\ store => (~p.in_use[t] /\ p'.writes_xreg[t])
        /\ ~store => (p'.in_use = p.in_use /\ p'.writes_xreg = p.writes_xreg)

Native(l, s) == IF p.target_xlen = 64 THEN l ELSE s

\* C6: an address-relative load or store emits one instruction with base X0
\* when upper(a) is zero, and otherwise lui(t, upper(a)) followed by the
\* access (d, t, lower(a)): t is d for a load, which takes no scratch
\* register, and for a store the scratch register allocated by the call.
C6_AddressRelativeShape ==
  [][/\ \A x \in NativeArgs :
          /\ EmitsAccess(Lx(x[1], x[2]), Native("ld", "lw"), x[1], x[2], FALSE)
          /\ EmitsAccess(Sx(x[1], x[2]), Native("sd", "sw"), x[1], x[2], TRUE)
     /\ \A x \in WidthArgs :
          /\ EmitsAccess(Ld(x[1], x[2]), "ld", x[1], x[2], FALSE)
          /\ EmitsAccess(Lw(x[1], x[2]), "lw", x[1], x[2], FALSE)
          /\ EmitsAccess(Lh(x[1], x[2]), "lh", x[1], x[2], FALSE)
          /\ EmitsAccess(Lb(x[1], x[2]), "lb", x[1], x[2], FALSE)
          /\ EmitsAccess(Sd(x[1], x[2]), "sd", x[1], x[2], TRUE)
          /\ EmitsAccess(Sw(x[1], x[2]), "sw", x[1], x[2], TRUE)
          /\ EmitsAccess(Sh(x[1], x[2]), "sh", x[1], x[2], TRUE)
          /\ EmitsAccess(Sb(x[1], x[2]), "sb", x[1], x[2], TRUE)]_vars

\* The scenario of native width 64 and address 0x2000: lui(d, 2), ld(d, d, 0).
C6_Witness ==
  /\ pc = "running" /\ ret = ERROR_OK /\ p.target_xlen = 64
  /\ p.instruction_count = 2
  /\ p.debug_buffer[0] = Insn("lui", X1, 0, 2)
  /\ p.debug_buffer[1] = Insn("ld", X1, X1, 0)
  /\ \A r \in Regs : ~p.in_use[r] /\ ~p.writes_xreg[r]

\* The access a returning address-relative call has just emitted.
LastInsn == p'.debug_buffer[p'.instruction_count - 1]

\* C7: the access an address-relative call emits targets the address: with
\* upper(a) zero its displacement is a, and otherwise upper(a) * 4096 plus
\* its displacement is a.
C7_AccessTargetsAddress ==
  [][\A x \in AbsArgs :
       (pc' = "running" /\ (AbsLoadOf(x[1], x[2]) \/ AbsStoreOf(x[1], x[2]))) =>
         IF Upper(x[2]) = 0
         THEN LastInsn[3] = GDB_REGNO_X0 /\ LastInsn[4] = x[2]
         ELSE Upper(x[2]) * 4096 + LastInsn[4] = x[2]]_vars

\* A call whose instruction writes general-purpose register d.
WritesRegister(d) ==
  \/ \E x \in RegRelArgs :
       x[1] = d /\ (Lwr(x[1], x[2], x[3]) \/ Lhr(x[1], x[2], x[3]) \/ Lbr(x[1], x[2], x[3]))
  \/ \E x \in AbsArgs : x[1] = d /\ AbsLoadOf(x[1], x[2])
  \/ \E x \in CsrArgs : x[1] = d /\ (Csrr(x[1], x[3]) \/ Csrrw(x[1], x[2], x[3]))
  \/ \E x \in LuiArgs : x[1] = d /\ Lui(x[1], x[2])
  \/ \E x \in AddiArgs : x[1] = d /\ Addi(x[1], x[2], x[3])
  \/ \E x \in LiArgs : x[1] = d /\ Li(x[1], x[2])

\* C9: after a call that appends an instruction writing a general-purpose
\* register d other than X0, dirtied[d] is set.
C9_WrittenRegisterIsDirtied ==
  [][\A d \in XRegs \ {GDB_REGNO_X0} :
       (pc' = "running" /\ Added > 0 /\ WritesRegister(d)) => p'.writes_xreg[d]]_vars

----------------------------------------------------------------------------
(* Marking registers, and what riscv_program_exec does with the marks *)

\* riscv_program_exec wrote the whole program and the target ran it, leaving
\* the registers as in `after`.
Ran(after) ==
  \E efail \in BOOLEAN, garbage \in RegVals :
    Exec(ExecAppend(Ctx(p)).p.instruction_count, efail, after, garbage,
         [i \in Slots |-> INVALID_INSN])

MarkFrame ==
  \A r \in XRegs :
    /\ DontRestoreRegister(r) => p' = [p EXCEPT !.writes_xreg[r] = FALSE]
    /\ DoRestoreRegister(r) => p' = [p EXCEPT !.writes_xreg[r] = TRUE]

\* exec neither reads nor writes a register whose flag is clear, and after a
\* run such a register holds what the program left in it.
Unmarked ==
  /\ \A r \in XRegs :
       ~p.writes_xreg[r] => (r \notin Snapshotted(hw') /\ r \notin WrittenBack(hw'))
  /\ (\E k \in 1 .. Len(hw') : hw'[k][1] = "execute_debug_buffer") =>
       \A after \in RunOutcomes(p, reg) :
         Ran(after) => \A r \in XRegs : ~p.writes_xreg[r] => reg'[r] = after[r]

----------------------------------------------------------------------------
(* What riscv_program_exec appends and transfers *)

\* The buffer indices riscv_write_debug_buffer was called for, in order.
Transferred(h) ==
  SelectSeq(h, LAMBDA e : e[1] = "write_debug_buffer")

FenceAdded == IF p.writes_memory THEN 1 ELSE 0

EbreakAdded == IF p.instruction_count + FenceAdded < buffer_size THEN 1 ELSE 0

\* exec appends one fence exactly when writes_memory is set and then one
\* ebreak exactly when there is room left, and nothing else; it aborts only
\* when the fence finds the buffer full.
ExecAppends ==
  /\ (ExecCalled /\ pc' = "running") =>
       /\ Appended(FenceAdded + EbreakAdded)
       /\ FenceAdded = 1 => p'.debug_buffer[p.instruction_count] = Insn("fence", 0, 0, 0)
       /\ EbreakAdded = 1 =>
            p'.debug_buffer[p.instruction_count + FenceAdded] = Insn("ebreak", 0, 0, 0)
       /\ \/ p'.debug_buffer[p'.instruction_count - 1] = Insn("ebreak", 0, 0, 0)
          \/ p'.instruction_count = buffer_size
  /\ (ExecCalled /\ pc' = "aborted") => (p.writes_memory /\ Full /\ ~Stored)

----------------------------------------------------------------------------
(* Failures of the hardware calls *)

\* The hardware calls of a sequence that failed.
Failed(h) ==
  {k \in 1 .. Len(h) :
     h[k][1] \in {"write_debug_buffer", "execute_debug_buffer"} /\ h[k][3] # ERROR_OK}

\* C13: a failed buffer write or a failed execution trigger is the last
\* hardware call exec makes, so that nothing is retried, no later word is
\* written, execution is not triggered after a failed write and no register
\* is written back; exec then returns ERROR_FAIL to its caller, and it
\* returns ERROR_FAIL in no other case.
C13_FailureEndsExec ==
  [][ExecCalled =>
       /\ \A k \in Failed(hw') : k = Len(hw') /\ pc' = "running" /\ ret' = ERROR_FAIL
       /\ (pc' = "running" /\ ret' # ERROR_OK) => Failed(hw') # {}
       /\ Failed(hw') # {} => (WrittenBack(hw') = {} /\ p'.debug_buffer = ExecAppend(Ctx(p)).p.debug_buffer)]_vars

\* The write of the second word failed after a dirtied register was
\* snapshotted: exec returned ERROR_FAIL without a trigger or a write-back.
C13_Witness ==
  /\ pc = "running" /\ ret = ERROR_FAIL /\ Len(hw) > 0
  /\ hw[Len(hw)] = <<"write_debug_buffer", 1, ERROR_FAIL>>
  /\ Snapshotted(hw) # {} /\ WrittenBack(hw) = {}
  /\ p.instruction_count > 2

----------------------------------------------------------------------------
(* After riscv_program_exec *)

\* C14: once exec was called the program is final: an emission, an
\* allocation or a second exec that follows an exec changes neither the
\* buffer, the count nor a flag, and transfers nothing to the target.
C14_ExecutedIsTerminal ==
  [][(Len(hw) > 0 /\ (Gettemp \/ ExecCalled \/ \E x \in WidthArgs : Sw(x[1], x[2]))) =>
       (p' = p /\ Len(Transferred(hw')) = 0)]_vars

----------------------------------------------------------------------------
(* Save and restore *)

\* The value of the last call of kind `call` for register r in h.
ValueOf(h, call, r) ==
  LET k == CHOOSE j \in 1 .. Len(h) : h[j][1] = call /\ h[j][2] = r
  IN  h[k][3]

\* C15: in an exec that reaches its restore step the registers written back
\* are the registers snapshotted, each with the value snapshotted; X0 is
\* neither snapshotted nor written, whatever its dirtied flag.
C15_RestoredAreSnapshotted ==
  [][(ExecCalled /\ pc' = "running") =>
       /\ GDB_REGNO_X0 \notin Snapshotted(hw') \cup WrittenBack(hw')
       /\ ret' = ERROR_OK =>
            /\ WrittenBack(hw') = Snapshotted(hw')
            /\ \A r \in WrittenBack(hw') :
                 ValueOf(hw', "set_register", r) = ValueOf(hw', "get_register", r)]_vars

----------------------------------------------------------------------------
(* The order of the hardware calls *)

\* The place of a hardware call in the order of riscv_program_exec.
Phase(e) ==
  CASE e[1] = "keep_alive" -> 0
    [] e[1] = "get_register" -> 1
    [] e[1] = "write_debug_buffer" -> 2
    [] e[1] = "execute_debug_buffer" -> 3
    [] e[1] = "read_debug_buffer" -> 4
    [] e[1] = "set_register" -> 5

\* C16: a successful exec calls keep_alive first and once, then reads the
\* registers it snapshots, then writes the buffer words 0 .. count - 1 in
\* ascending order, the appended fence and breakpoint included, then
\* triggers execution once, then writes registers back in ascending order;
\* no register is read after the trigger and none written before it.
C16_OrderOfHardwareCalls ==
  [][(ExecCalled /\ pc' = "running" /\ ret' = ERROR_OK) =>
       /\ hw'[1][1] = "keep_alive"
       /\ \A j, k \in 1 .. Len(hw') :
            j < k =>
              /\ Phase(hw'[j]) <= Phase(hw'[k])
              /\ (Phase(hw'[j]) = Phase(hw'[k])) =>
                   (Phase(hw'[j]) \in {1, 2, 5} /\ hw'[j][2] < hw'[k][2])
       /\ \E k \in 1 .. Len(hw') : hw'[k][1] = "execute_debug_buffer"
       /\ LET w == Transferred(hw')
          IN  /\ Len(w) = p'.instruction_count
              /\ \A k \in 1 .. Len(w) : w[k][2] = k - 1]_vars

\* A successful exec that snapshotted two registers, wrote the three words
\* of a program that ends in the appended fence and restored two registers.
C16_Witness ==
  /\ pc = "running" /\ ret = ERROR_OK /\ Len(hw) > 0
  /\ Cardinality(Snapshotted(hw)) >= 2 /\ Cardinality(WrittenBack(hw)) >= 2
  /\ Len(Transferred(hw)) = 3
  /\ p.debug_buffer[2] = Insn("fence", 0, 0, 0)

----------------------------------------------------------------------------
(* Read-back, diagnostics, and the scratch register of a store *)

\* The buffer indices riscv_read_debug_buffer was called for.
ReadBack(h) == {h[k][2] : k \in {j \in 1 .. Len(h) : h[j][1] = "read_debug_buffer"}}

\* C17: an exec whose trigger succeeded calls riscv_read_debug_buffer for
\* every index 0 .. capacity - 1 before it restores registers.
C17_BufferIsReadBack ==
  [][(ExecCalled /\ pc' = "running" /\ ret' = ERROR_OK) =>
       ReadBack(hw') = 0 .. (buffer_size - 1)]_vars

\* The lines of a log that dump a buffer slot.
DumpLines(l) == {k \in 1 .. Len(l) : l[k] = "ram[]: DASM()"}

\* C18: a process that aborted has logged the whole buffer, one line per
\* slot, and a call that returned has logged no slot.
C18_FatalDumpsBuffer ==
  /\ pc = "aborted" => Cardinality(DumpLines(log)) = buffer_size
  /\ pc = "running" => DumpLines(log) = {}

\* C19: the lui of a materializing address-relative store of register d
\* does not write d.
C19_ScratchIsNotData ==
  [][\A x \in AbsArgs :
       (pc' = "running" /\ Upper(x[2]) # 0 /\ AbsStoreOf(x[1], x[2])) =>
         /\ p'.debug_buffer[p.instruction_count][1] = "lui"
         /\ p'.debug_buffer[p.instruction_count][2] # x[1]]_vars

----------------------------------------------------------------------------
(* The buffer is append-only *)

\* C20: every slot at or above the count holds the sentinel written by
\* riscv_program_init; a step never lowers the count, changes no slot below
\* the old count and none at or above the new one, and fills the slots in
\* between: instructions are written to slot instruction_count only.
C20_AppendOnly ==
  /\ [](\A i \in Slots : i >= p.instruction_count => p.debug_buffer[i] = INVALID_INSN)
  /\ [][/\ Added >= 0
        /\ Appended(Added)
        /\ \A i \in Slots :
             (i >= p.instruction_count /\ i < p'.instruction_count) =>
               p'.debug_buffer[i] # INVALID_INSN]_vars

\* exec returned ERROR_OK on a program of a store: the slots written before
\* exec hold what was emitted, the fence follows them.
C20_Witness ==
  /\ pc = "running" /\ ret = ERROR_OK /\ Len(hw) > 0
  /\ p.instruction_count = 3
  /\ p.debug_buffer[0][1] = "lui" /\ p.debug_buffer[1][1] = "sw"
  /\ p.debug_buffer[2] = Insn("fence", 0, 0, 0)

====
